---- MODULE Spec2Model ----
(***************************************************************************)
(* A model of lib/nexmo.js: the process-wide settings, the public          *)
(* operations with their argument validation, the request builder          *)
(* (sendRequest), the response handlers it registers on the transport, and *)
(* the message-send guard (sendMessage).                                   *)
(*                                                                         *)
(* JavaScript values are records [t, s, n]: t is the type tag, s the text  *)
(* of a string, n the number (or the length of an array, or the identity   *)
(* of a function).  Strings are TLA+ strings, so that concatenation and    *)
(* .length are computed, not assumed.                                      *)
(***************************************************************************)
EXTENDS Naturals, Integers, Sequences, FiniteSets, TLC

VARIABLES
  _apiKey,       \* settings (nexmo.js 99-103)
  _apiSecret,
  _useHttps,
  _debugMode,
  _initialized,
  _HEADERS,      \* the shared header object (nexmo.js 34-37, 586)
  requests,      \* the requests handed to the transport, each with its closure
  last,          \* what the most recent public call did before it returned
  nCalls         \* number of public operations called so far (initialize excluded)

vars == <<_apiKey, _apiSecret, _useHttps, _debugMode, _initialized, _HEADERS,
          requests, last, nCalls>>

\* The number of public operations (other than initialize) one behaviour calls.
MaxCalls == 1

-----------------------------------------------------------------------------
(* JavaScript values *)

Undefined == [t |-> "undefined", s |-> "", n |-> 0]
Null == [t |-> "null", s |-> "", n |-> 0]
Str(x) == [t |-> "string", s |-> x, n |-> 0]
Num(k) == [t |-> "number", s |-> "", n |-> k]
Bool(b) == [t |-> "boolean", s |-> "", n |-> IF b THEN 1 ELSE 0]
\* a caller's function; n tells the caller's functions apart
Fn(k) == [t |-> "function", s |-> "", n |-> k]
\* an array of k message ids
Arr(k) == [t |-> "array", s |-> "", n |-> k]

\* ToBoolean: what `if (v)` and `!v` test
Truthy(v) ==
  CASE v.t = "undefined" -> FALSE
    [] v.t = "null" -> FALSE
    [] v.t = "string" -> v.s # ""
    [] v.t = "number" -> v.n # 0
    [] v.t = "boolean" -> v.n = 1
    [] OTHER -> TRUE

IsFunction(v) == v.t = "function"

\* v.length; -1 stands for undefined (a value without a length property)
JSLength(v) ==
  CASE v.t = "string" -> Len(v.s)
    [] v.t = "array" -> v.n
    [] OTHER -> -1

-----------------------------------------------------------------------------
(* Errors: what is thrown, or passed as a continuation's first argument.   *)
(* kind is "string" for a thrown bare string, the constructor's name for   *)
(* an error object, "null" / "undefined" for those values and "none" where *)
(* nothing was thrown.                                                     *)

Err(k, m) == [kind |-> k, message |-> m]
NoThrow == Err("none", "")
ErrNull == Err("null", "")
ErrUndefined == Err("undefined", "")

ErrTruthy(e) == e.kind \notin {"null", "undefined", "none"}

_ERROR_MESSAGES ==
  [ initializeRequired |-> "nexmo not initialized, call nexmo.initialize(api_key, api_secret) first before calling any nexmo API",
    keyAndSecretRequired |-> "Key and secret cannot be empty",
    invalidTextMessage |-> "Invalid text message",
    invalidBody |-> "Invalid body value in binary message",
    invalidUdh |-> "Invalid udh value in binary message",
    invalidTitle |-> "Invalid title in WAP push message",
    invalidUrl |-> "Invalid url in WAP push message",
    invalidSender |-> "Invalid from address",
    invalidRecipient |-> "Invalid to address",
    invalidCountryCode |-> "Invalid country code",
    invalidMsisdn |-> "Invalid MSISDN passed",
    invalidMessageId |-> "Invalid message id(s)",
    tooManyMessageId |-> "Too many message id",
    invalidDate |-> "Invalid date value",
    invalidNewSecret |-> "Invalid new secret",
    invalidCallbackUrl |-> "Invalid callback url",
    invalidTransactionId |-> "Invalid transaction id" ]

\* new Error(message)
NewError(m) == Err("Error", m)

_BASE_URL == "rest.nexmo.com"

_ENDPOINT ==
  [ sms |-> "/sms/json",
    ussd |-> "/ussd/json",
    tts |-> "/tts/json",
    accountGetBalance |-> "/account/get-balance",
    accountPricing |-> "/account/get-pricing/outbound",
    accountSettings |-> "/account/settings",
    accountTopUp |-> "/account/top-up",
    accountNumbers |-> "/account/numbers",
    numberSearch |-> "/number/search",
    numberBuy |-> "/number/buy",
    numberCancel |-> "/number/cancel",
    numberUpdate |-> "/number/update",
    searchMessage |-> "/search/message",
    searchMessages |-> "/search/messages",
    searchRejections |-> "/search/rejections" ]

-----------------------------------------------------------------------------
(* Decoded response payloads: the values JSON.parse returns, and what a    *)
(* continuation receives as its second argument.  An object keeps the      *)
(* properties the library reads (status, error-text, messages and each     *)
(* entry's status and error-text) and one other property, value.           *)

Payload(k, txt, st, et, hm, ms, ex) ==
  [kind |-> k, text |-> txt, status |-> st, errorText |-> et,
   hasMessages |-> hm, messages |-> ms, value |-> ex]

PUndefined == Payload("undefined", "", Undefined, Undefined, FALSE, <<>>, Undefined)
PNull == Payload("null", "", Undefined, Undefined, FALSE, <<>>, Undefined)
PString(txt) == Payload("string", txt, Undefined, Undefined, FALSE, <<>>, Undefined)
PObject(st, et, hm, ms, ex) == Payload("object", "", st, et, hm, ms, ex)

Entry(st, et) == [status |-> st, errorText |-> et]

\* JSON.parse(text): the decoded value, or the SyntaxError it throws.  The
\* texts the transport can deliver are those of Bodies and their prefixes;
\* every text that is not one of the JSON documents below is malformed.
JSON_parse(text) ==
  CASE text = "{\"status\":\"1\",\"error-text\":\"bad request\"}" ->
         [ok |-> TRUE, value |-> PObject(Str("1"), Str("bad request"), FALSE, <<>>, Undefined)]
    [] text = "{\"status\":\"1\",\"error-text\":\"\"}" ->
         [ok |-> TRUE, value |-> PObject(Str("1"), Str(""), FALSE, <<>>, Undefined)]
    [] text = "{\"status\":0,\"error-text\":\"Success\"}" ->
         [ok |-> TRUE, value |-> PObject(Num(0), Str("Success"), FALSE, <<>>, Undefined)]
    [] text = "{\"messages\":[{\"status\":\"0\"}]}" ->
         [ok |-> TRUE, value |-> PObject(Undefined, Undefined, TRUE,
                                         <<Entry(Str("0"), Undefined)>>, Undefined)]
    [] text = "{\"messages\":[{\"status\":\"2\",\"error-text\":\"Missing to param\"}]}" ->
         [ok |-> TRUE, value |-> PObject(Undefined, Undefined, TRUE,
                                         <<Entry(Str("2"), Str("Missing to param"))>>, Undefined)]
    [] text = "{\"status\":\"1\",\"messages\":[{\"status\":\"4\",\"error-text\":\"Bad credentials\"}]}" ->
         [ok |-> TRUE, value |-> PObject(Str("1"), Undefined, TRUE,
                                         <<Entry(Str("4"), Str("Bad credentials"))>>, Undefined)]
    [] text = "{\"status\":\"1\",\"messages\":[]}" ->
         [ok |-> TRUE, value |-> PObject(Str("1"), Undefined, TRUE, <<>>, Undefined)]
    [] text = "{\"value\":3}" ->
         [ok |-> TRUE, value |-> PObject(Undefined, Undefined, FALSE, <<>>, Num(3))]
    [] text = "null" ->
         [ok |-> TRUE, value |-> PNull]
    [] text = "\"ok\"" ->
         [ok |-> TRUE, value |-> PString("ok")]
    [] OTHER ->
         [ok |-> FALSE, value |-> PUndefined]

\* The error JSON.parse throws
parserError == Err("SyntaxError", "Unexpected token")

\* The response bodies the upstream service can send, each as the chunks the
\* transport delivers it in.
Bodies ==
  { <<"{\"status\":\"1\",", "\"error-text\":\"bad request\"}">>,
    <<"{\"status\":\"1\",\"error-text\":\"\"}">>,
    <<"{\"status\":0,\"error-text\":\"Success\"}">>,
    <<"{\"messages\":[{\"status\":\"0\"}]}">>,
    <<"{\"messages\":[{\"status\":\"2\",\"error-text\":\"Missing to param\"}]}">>,
    <<"{\"status\":\"1\",\"messages\":[{\"status\":\"4\",\"error-text\":\"Bad credentials\"}]}">>,
    <<"{\"status\":\"1\",\"messages\":[]}">>,
    <<"{\"value\":3}">>,
    <<"null">>,
    <<"\"ok\"">>,
    <<"Unauthorized">> }

-----------------------------------------------------------------------------
(* querystring.stringify and encodeURIComponent *)

Digit(d) ==
  CASE d = 0 -> "0" [] d = 1 -> "1" [] d = 2 -> "2" [] d = 3 -> "3" [] d = 4 -> "4"
    [] d = 5 -> "5" [] d = 6 -> "6" [] d = 7 -> "7" [] d = 8 -> "8" [] d = 9 -> "9"

RECURSIVE NumToString(_)
NumToString(k) ==
  IF k < 10 THEN Digit(k) ELSE NumToString(k \div 10) \o Digit(k % 10)

\* an encodeURIComponent that escapes nothing
encodeURIComponent_identity(s) == s

\* encodeURIComponent(s) (querystring.escape is the same function): the
\* strings of the model that hold a reserved character are listed, every
\* other string of the model is made of unreserved characters only.
encodeURIComponent(s) ==
  CASE s = "http://example.com/cb" -> "http%3A%2F%2Fexample.com%2Fcb"
    [] s = "http%3A%2F%2Fexample.com%2Fcb" -> "http%253A%252F%252Fexample.com%252Fcb"
    [] s = "hello world" -> "hello%20world"
    [] s = "id1&api_key=evil" -> "id1%26api_key%3Devil"
    [] OTHER -> s

\* the i-th id of an array of message ids
MessageId(i) == "id" \o NumToString(i)

\* querystring's stringifyPrimitive
stringifyPrimitive(v) ==
  CASE v.t = "string" -> v.s
    [] v.t = "number" -> NumToString(v.n)
    [] v.t = "boolean" -> IF v.n = 1 THEN "true" ELSE "false"
    [] OTHER -> ""

RECURSIVE stringifyArray(_, _, _)
stringifyArray(ks, i, len) ==
  IF i > len THEN ""
  ELSE ks \o encodeURIComponent(MessageId(i))
       \o (IF i < len THEN "&" \o stringifyArray(ks, i + 1, len) ELSE "")

\* one key of the object
stringifyField(f) ==
  LET ks == encodeURIComponent(f.k) \o "="
  IN IF f.v.t = "array" THEN stringifyArray(ks, 1, f.v.n)
     ELSE ks \o encodeURIComponent(stringifyPrimitive(f.v))

\* querystring.stringify(obj); obj is the sequence of its [k, v] fields in
\* insertion order
RECURSIVE querystring_stringify(_)
querystring_stringify(obj) ==
  IF obj = <<>> THEN ""
  ELSE stringifyField(Head(obj))
       \o (IF Len(obj) > 1 THEN "&" \o querystring_stringify(Tail(obj)) ELSE "")

Field(key, val) == [k |-> key, v |-> val]

\* the data argument of sendRequest: null, or an object
NullData == [isNull |-> TRUE, fields |-> <<>>]
Data(fs) == [isNull |-> FALSE, fields |-> fs]

-----------------------------------------------------------------------------
(* What a call does before it returns: the exception it raises (NoThrow    *)
(* when it returns), the continuation invocations it makes, the requests   *)
(* it hands to the transport and the header object it leaves.              *)

Invocation(f, e, d) == [fn |-> f, err |-> e, data |-> d]

Outcome(t, c, r, h) == [threw |-> t, calls |-> c, reqs |-> r, headers |-> h]

Throw(e) == Outcome(e, <<>>, <<>>, _HEADERS)

\* sendErrorResponse: send back or throw out the error
sendErrorResponse(callback, err, returnData) ==
  IF Truthy(callback)
  THEN Outcome(NoThrow, <<Invocation(callback, err, returnData)>>, <<>>, _HEADERS)
  ELSE Throw(err)

\* A call of sendError, which the file never defines: evaluating the
\* identifier raises a ReferenceError before any argument is used.
sendError(callback, err) == Throw(Err("ReferenceError", "sendError is not defined"))

-----------------------------------------------------------------------------
(* sendRequest, up to request.end() *)

\* the function sendMessage passes to sendRequest; it closes over the
\* caller's callback (n = 0: the caller gave none)
GuardFn(callback) ==
  [t |-> "function", s |-> "sendMessage", n |-> IF IsFunction(callback) THEN callback.n ELSE 0]

IsGuardFn(f) == f.t = "function" /\ f.s = "sendMessage"

\* the caller's callback a guard function closes over
GuardedCallback(f) == IF f.n = 0 THEN Undefined ELSE Fn(f.n)

HttpsPort == 443
HttpPort == 80

\* The request object http.request / https.request returns, with the
\* closure of the handlers sendRequest registers on it.
Request(options, secure, written, callback) ==
  [ host |-> options.host, port |-> options.port, path |-> options.path,
    method |-> options.method, headers |-> options.headers,
    secure |-> secure,          \* made by https.request (TRUE) or http.request
    written |-> written,        \* what request.write was given
    callback |-> callback,      \* the handlers' callback
    buffer |-> "",              \* the handlers' buffer
    responded |-> FALSE,        \* 'response' was emitted
    plan |-> <<>>,              \* the chunks the transport has yet to deliver
    ended |-> FALSE,            \* 'end' was emitted
    closed |-> FALSE,           \* 'close' was emitted
    errored |-> FALSE,          \* 'error' was emitted
    delivered |-> <<>>,         \* the invocations of the caller's continuation
    uncaught |-> <<>> ]         \* the exceptions raised inside a handler

\* sendRequest without the change of port for the plaintext protocol
sendRequest_port443(endpoint, data, method, callback) ==
  IF ~_initialized
  THEN Throw(Err("string", _ERROR_MESSAGES.initializeRequired))
  ELSE
    LET credentials == <<Field("api_key", _apiKey), Field("api_secret", _apiSecret)>>
        dataString == querystring_stringify(credentials)
                      \o (IF data.isNull THEN ""
                          ELSE "&" \o querystring_stringify(data.fields))
        cb == IF IsFunction(method) THEN method ELSE callback
        mth == IF IsFunction(method) THEN Str("GET") ELSE method
        isPost == (mth = Str("POST"))
        headers == IF isPost
                   THEN [_HEADERS EXCEPT !.ContentLength = Num(Len(dataString))]
                   ELSE _HEADERS
        path == IF isPost THEN endpoint ELSE endpoint \o "?" \o dataString
        options == [ host |-> _BASE_URL,
                     port |-> HttpsPort,
                     path |-> path, method |-> mth, headers |-> headers ]
        written == IF isPost THEN <<dataString>> ELSE <<>>
    IN Outcome(NoThrow, <<>>, <<Request(options, _useHttps, written, cb)>>, headers)

\* sendRequest(endpoint, data, method, callback), up to request.end()
sendRequest(endpoint, data, method, callback) ==
  IF ~_initialized
  THEN Throw(Err("string", _ERROR_MESSAGES.initializeRequired))
  ELSE
    LET credentials == <<Field("api_key", _apiKey), Field("api_secret", _apiSecret)>>
        dataString == querystring_stringify(credentials)
                      \o (IF data.isNull THEN ""
                          ELSE "&" \o querystring_stringify(data.fields))
        cb == IF IsFunction(method) THEN method ELSE callback
        mth == IF IsFunction(method) THEN Str("GET") ELSE method
        isPost == (mth = Str("POST"))
        headers == IF isPost
                   THEN [_HEADERS EXCEPT !.ContentLength = Num(Len(dataString))]
                   ELSE _HEADERS
        path == IF isPost THEN endpoint ELSE endpoint \o "?" \o dataString
        options == [ host |-> _BASE_URL,
                     port |-> IF _useHttps THEN HttpsPort ELSE HttpPort,
                     path |-> path, method |-> mth, headers |-> headers ]
        written == IF isPost THEN <<dataString>> ELSE <<>>
    IN Outcome(NoThrow, <<>>, <<Request(options, _useHttps, written, cb)>>, headers)

-----------------------------------------------------------------------------
(* sendMessage and the function it passes to sendRequest *)

\* ToNumber of a string, for the strings a status can be
StringToNumber(x) ==
  CASE x = "0" -> 0 [] x = "1" -> 1 [] x = "2" -> 2 [] x = "4" -> 4
    [] OTHER -> -1   \* NaN: every comparison with it is false

\* v > 0
GreaterThanZero(v) ==
  CASE v.t = "number" -> v.n > 0
    [] v.t = "string" -> StringToNumber(v.s) > 0
    [] v.t = "boolean" -> v.n = 1
    [] OTHER -> FALSE

\* the message of new Error(v)
ErrorMessage(v) ==
  CASE v.t = "undefined" -> ""
    [] v.t = "string" -> v.s
    [] v.t = "number" -> NumToString(v.n)
    [] OTHER -> v.t

TypeErrorProperty == Err("TypeError", "Cannot read property of undefined or null")
TypeErrorNotFunction == Err("TypeError", "callback is not a function")

\* the guard without its first test: a status with an error-text passes
sendMessageCallback_noPairCheck(callback, err, apiResponse) ==
  LET pass == IF Truthy(callback)
              THEN Outcome(NoThrow, <<Invocation(callback, err, apiResponse)>>, <<>>, _HEADERS)
              ELSE Outcome(NoThrow, <<>>, <<>>, _HEADERS)
  IN IF ErrTruthy(err) THEN pass
     ELSE IF apiResponse.kind \in {"undefined", "null"} THEN Throw(TypeErrorProperty)
     ELSE IF Truthy(apiResponse.status) /\ apiResponse.hasMessages
       THEN IF apiResponse.messages = <<>> THEN Throw(TypeErrorProperty)
            ELSE IF GreaterThanZero(apiResponse.messages[1].status)
              THEN sendErrorResponse(callback,
                     NewError(ErrorMessage(apiResponse.messages[1].errorText)), PUndefined)
            ELSE pass
     ELSE pass

\* function(err, apiResponse) of sendMessage, with the caller's callback
sendMessageCallback(callback, err, apiResponse) ==
  LET pass == IF Truthy(callback)
              THEN Outcome(NoThrow, <<Invocation(callback, err, apiResponse)>>, <<>>, _HEADERS)
              ELSE Outcome(NoThrow, <<>>, <<>>, _HEADERS)
  IN IF ErrTruthy(err) THEN pass
     ELSE IF apiResponse.kind \in {"undefined", "null"} THEN Throw(TypeErrorProperty)
     ELSE IF Truthy(apiResponse.status) /\ Truthy(apiResponse.errorText)
       THEN sendErrorResponse(callback, NewError(ErrorMessage(apiResponse.errorText)), PUndefined)
     ELSE IF Truthy(apiResponse.status) /\ apiResponse.hasMessages
       THEN IF apiResponse.messages = <<>> THEN Throw(TypeErrorProperty)
            ELSE IF GreaterThanZero(apiResponse.messages[1].status)
              THEN sendErrorResponse(callback,
                     NewError(ErrorMessage(apiResponse.messages[1].errorText)), PUndefined)
            ELSE pass
     ELSE pass

\* sendMessage without its test of the recipient
sendMessage_noRecipientCheck(data, endpoint, callback) ==
  IF ~Truthy(data.fields[1].v)
  THEN sendErrorResponse(callback, NewError(_ERROR_MESSAGES.invalidSender), PUndefined)
  ELSE sendRequest(endpoint, data, Str("POST"), GuardFn(callback))

\* data is the object the send operation built: its from and to fields are
\* the first two.
sendMessage(data, endpoint, callback) ==
  IF ~Truthy(data.fields[1].v)
  THEN sendErrorResponse(callback, NewError(_ERROR_MESSAGES.invalidSender), PUndefined)
  ELSE IF ~Truthy(data.fields[2].v)
  THEN sendErrorResponse(callback, NewError(_ERROR_MESSAGES.invalidRecipient), PUndefined)
  ELSE sendRequest(endpoint, data, Str("POST"), GuardFn(callback))

\* calling the handlers' callback f with (err, data)
CallCallback(f, err, data) ==
  IF IsGuardFn(f) THEN sendMessageCallback(GuardedCallback(f), err, data)
  ELSE IF IsFunction(f) THEN Outcome(NoThrow, <<Invocation(f, err, data)>>, <<>>, _HEADERS)
  ELSE Throw(TypeErrorNotFunction)

-----------------------------------------------------------------------------
(* The public operations, as functions of their arguments *)

sendTextMessage(sender, recipient, message, callback) ==
  IF ~Truthy(message)
  THEN sendErrorResponse(callback, NewError(_ERROR_MESSAGES.invalidTextMessage), PUndefined)
  ELSE sendMessage(Data(<<Field("from", sender), Field("to", recipient),
                          Field("type", Str("unicode")), Field("text", message)>>),
                   _ENDPOINT.sms, callback)

sendBinaryMessage(sender, recipient, body, udh, callback) ==
  IF ~Truthy(body)
  THEN sendErrorResponse(callback, NewError(_ERROR_MESSAGES.invalidBody), PUndefined)
  ELSE IF ~Truthy(udh)
  THEN sendErrorResponse(callback, NewError(_ERROR_MESSAGES.invalidUdh), PUndefined)
  ELSE sendMessage(Data(<<Field("from", sender), Field("to", recipient),
                          Field("type", Str("binary")), Field("body", body),
                          Field("udh", udh)>>),
                   _ENDPOINT.sms, callback)

DefaultValidity == 172800000

sendWapPushMessage(sender, recipient, title, url, validity, callback) ==
  IF ~Truthy(title)
  THEN sendErrorResponse(callback, NewError(_ERROR_MESSAGES.invalidTitle), PUndefined)
  ELSE IF ~Truthy(url)
  THEN sendErrorResponse(callback, NewError(_ERROR_MESSAGES.invalidUrl), PUndefined)
  ELSE
    LET cb == IF IsFunction(validity) THEN validity ELSE callback
        val == IF IsFunction(validity) THEN Num(DefaultValidity) ELSE validity
    IN sendMessage(Data(<<Field("from", sender), Field("to", recipient),
                          Field("type", Str("wappush")), Field("title", title),
                          Field("url", Str(encodeURIComponent(url.s))),
                          Field("validity", val)>>),
                   _ENDPOINT.sms, cb)

sendTTSMessage(sender, recipient, message, callback) ==
  IF ~Truthy(message)
  THEN sendErrorResponse(callback, NewError(_ERROR_MESSAGES.invalidTextMessage), PUndefined)
  ELSE sendMessage(Data(<<Field("from", sender), Field("to", recipient),
                          Field("text", message)>>),
                   _ENDPOINT.tts, callback)

\* sendRequest(endpoint, data, callback): the callback is in method's place
getBalance(callback) ==
  sendRequest(_ENDPOINT.accountGetBalance, NullData, callback, Undefined)

getPricing(countryCode, callback) ==
  IF ~Truthy(countryCode) \/ JSLength(countryCode) # 2
  THEN sendErrorResponse(callback, NewError(_ERROR_MESSAGES.invalidCountryCode), PUndefined)
  ELSE sendRequest(_ENDPOINT.accountPricing, Data(<<Field("country", countryCode)>>),
                   callback, Undefined)

MaxSecretLength == 8

updateSecret(newSecret, callback) ==
  IF ~Truthy(newSecret) \/ JSLength(newSecret) > MaxSecretLength
  THEN sendError(callback, NewError(_ERROR_MESSAGES.invalidNewSecret))
  ELSE sendRequest(_ENDPOINT.accountSettings,
                   Data(<<Field("newSecret", Str(encodeURIComponent(newSecret.s)))>>),
                   Str("POST"), callback)

updateMoCallBackUrl(newUrl, callback) ==
  IF ~Truthy(newUrl)
  THEN sendError(callback, NewError(_ERROR_MESSAGES.invalidCallbackUrl))
  ELSE sendRequest(_ENDPOINT.accountSettings,
                   Data(<<Field("moCallBackUrl", Str(encodeURIComponent(newUrl.s)))>>),
                   Str("POST"), callback)

updateDrCallBackUrl(newUrl, callback) ==
  IF ~Truthy(newUrl)
  THEN sendError(callback, NewError(_ERROR_MESSAGES.invalidCallbackUrl))
  ELSE sendRequest(_ENDPOINT.accountSettings,
                   Data(<<Field("drCallBackUrl", Str(encodeURIComponent(newUrl.s)))>>),
                   Str("POST"), callback)

getTopUp(transactionId, callback) ==
  IF ~Truthy(transactionId)
  THEN sendError(callback, NewError(_ERROR_MESSAGES.invalidTransactionId))
  ELSE sendRequest(_ENDPOINT.accountTopUp, Data(<<Field("trx", transactionId)>>),
                   Str("POST"), callback)

getNumbers(callback) ==
  sendRequest(_ENDPOINT.accountNumbers, NullData, callback, Undefined)

searchNumbers(countryCode, pattern, index, size, callback) ==
  IF ~Truthy(countryCode) \/ JSLength(countryCode) # 2
  THEN sendErrorResponse(callback, NewError(_ERROR_MESSAGES.invalidCountryCode), PUndefined)
  ELSE
    LET country == <<Field("country", countryCode)>>
        fields == IF IsFunction(pattern) THEN country
                  ELSE IF IsFunction(index) THEN country \o <<Field("pattern", pattern)>>
                  ELSE IF IsFunction(size)
                    THEN country \o <<Field("pattern", pattern), Field("index", index)>>
                  ELSE country \o <<Field("pattern", pattern), Field("index", index),
                                    Field("size", size)>>
        cb == IF IsFunction(pattern) THEN pattern
              ELSE IF IsFunction(index) THEN index
              ELSE IF IsFunction(size) THEN size
              ELSE callback
    IN sendRequest(_ENDPOINT.numberSearch, Data(fields), cb, Undefined)

MinMsisdnLength == 10

buyNumber(countryCode, msisdn, callback) ==
  IF ~Truthy(countryCode) \/ JSLength(countryCode) # 2
  THEN sendErrorResponse(callback, NewError(_ERROR_MESSAGES.invalidCountryCode), PUndefined)
  ELSE IF ~Truthy(msisdn) \/ JSLength(msisdn) < MinMsisdnLength
  THEN sendErrorResponse(callback, NewError(_ERROR_MESSAGES.invalidMsisdn), PUndefined)
  ELSE sendRequest(_ENDPOINT.numberBuy,
                   Data(<<Field("country", countryCode), Field("msisdn", msisdn)>>),
                   Str("POST"), callback)

cancelNumber(countryCode, msisdn, callback) ==
  IF ~Truthy(countryCode) \/ JSLength(countryCode) # 2
  THEN sendErrorResponse(callback, NewError(_ERROR_MESSAGES.invalidCountryCode), PUndefined)
  ELSE IF ~Truthy(msisdn) \/ JSLength(msisdn) < MinMsisdnLength
  THEN sendErrorResponse(callback, NewError(_ERROR_MESSAGES.invalidMsisdn), PUndefined)
  ELSE sendRequest(_ENDPOINT.numberCancel,
                   Data(<<Field("country", countryCode), Field("msisdn", msisdn)>>),
                   Str("POST"), callback)

updateNumberCallback(countryCode, msisdn, newUrl, sysType, callback) ==
  Throw(Err("string", "Not yet implemented!"))

searchMessage(messageId, callback) ==
  IF ~Truthy(messageId)
  THEN sendErrorResponse(callback, NewError(_ERROR_MESSAGES.invalidMessageId), PUndefined)
  ELSE sendRequest(_ENDPOINT.searchMessage, Data(<<Field("id", messageId)>>),
                   callback, Undefined)

MaxMessageIds == 10

\* searchMessageByIds without its limit on the number of ids
searchMessageByIds_noLimit(messageIds, callback) ==
  IF ~Truthy(messageIds) \/ JSLength(messageIds) = 0
  THEN sendErrorResponse(callback, NewError(_ERROR_MESSAGES.invalidMessageId), PUndefined)
  ELSE sendRequest(_ENDPOINT.searchMessages, Data(<<Field("ids", messageIds)>>),
                   callback, Undefined)

searchMessageByIds(messageIds, callback) ==
  IF ~Truthy(messageIds) \/ JSLength(messageIds) = 0
  THEN sendErrorResponse(callback, NewError(_ERROR_MESSAGES.invalidMessageId), PUndefined)
  ELSE IF JSLength(messageIds) > MaxMessageIds
  THEN sendErrorResponse(callback, NewError(_ERROR_MESSAGES.tooManyMessageId), PUndefined)
  ELSE sendRequest(_ENDPOINT.searchMessages, Data(<<Field("ids", messageIds)>>),
                   callback, Undefined)

searchMessagesByRecipient(date, to, callback) ==
  IF ~Truthy(date)
  THEN sendErrorResponse(callback, NewError(_ERROR_MESSAGES.invalidDate), PUndefined)
  ELSE IF ~Truthy(to)
  THEN sendErrorResponse(callback, NewError(_ERROR_MESSAGES.invalidRecipient), PUndefined)
  ELSE sendRequest(_ENDPOINT.searchMessages,
                   Data(<<Field("date", date), Field("to", to)>>),
                   callback, Undefined)

searchRejections(date, to, callback) ==
  IF ~Truthy(date)
  THEN sendErrorResponse(callback, NewError(_ERROR_MESSAGES.invalidDate), PUndefined)
  ELSE
    LET cb == IF IsFunction(to) THEN to ELSE callback
        fields == IF ~IsFunction(to) /\ Truthy(to)
                  THEN <<Field("date", date), Field("to", to)>>
                  ELSE <<Field("date", date)>>
    IN sendRequest(_ENDPOINT.searchRejections, Data(fields), cb, Undefined)

-----------------------------------------------------------------------------
(* The arguments callers pass *)

KeyArgs == {Undefined, Str(""), Str("key1"), Str("key2")}
SecretArgs == {Undefined, Str(""), Str("secret1")}
ProtocolArgs == {Undefined, Str("http"), Str("https")}
DebugArgs == {Undefined, Bool(TRUE)}

CallbackArgs == {Undefined, Fn(1)}
SenderArgs == {Undefined, Str("NEXMO")}
RecipientArgs == {Undefined, Str("886912345678")}
MessageArgs == {Undefined, Str("hello world")}
BodyArgs == {Undefined, Str("0011223344")}
UdhArgs == {Undefined, Str("06050415811581")}
TitleArgs == {Undefined, Str("Title")}
UrlArgs == {Undefined, Str("http://example.com/cb")}
\* validity, or the callback in its place
ValidityArgs == {Undefined, Num(86400000), Fn(2)}
CountryArgs == {Undefined, Str("U"), Str("US"), Str("USA")}
NewSecretArgs == {Undefined, Str("newsecrt"), Str("newsecret")}
\* the last one tries to smuggle a credential field into the request
TransactionArgs == {Undefined, Str("trx1"), Str("id1&api_key=evil")}
\* pattern, index and size, or the callback in the place of one of them
PatternArgs == {Undefined, Str("88"), Fn(2)}
IndexArgs == {Undefined, Num(1), Fn(3)}
SizeArgs == {Undefined, Num(10), Fn(4)}
MsisdnArgs == {Undefined, Str("123456789"), Str("1234567890")}
MessageIdArgs == {Undefined, Str("id1"), Str("id1&api_key=evil")}
MessageIdsArgs == {Undefined, Arr(0), Arr(1), Arr(10), Arr(11)}
DateArgs == {Undefined, Str("2014-01-01")}
\* to, or the callback in its place
ToArgs == {Undefined, Str("886912345678"), Fn(2)}

-----------------------------------------------------------------------------
(* State *)

Init ==
  /\ _apiKey = Str("")
  /\ _apiSecret = Str("")
  /\ _useHttps = TRUE
  /\ _debugMode = Bool(FALSE)
  /\ _initialized = FALSE
  /\ _HEADERS = [ ContentType |-> Str("application/x-www-form-urlencoded"),
                  accept |-> Str("application/json"),
                  ContentLength |-> Undefined ]
  /\ requests = <<>>
  /\ last = [ op |-> "none", args |-> <<>>, initialized |-> FALSE,
              threw |-> NoThrow, calls |-> <<>>, reqs |-> 0 ]
  /\ nCalls = 0

settings == <<_apiKey, _apiSecret, _useHttps, _debugMode, _initialized>>

\* initialize with the guard on the secret forgotten
initialize_keyOnly(key, secret, protocol, debug) ==
  /\ nCalls < MaxCalls
  /\ IF ~Truthy(key)
     THEN /\ last' = [ op |-> "initialize", args |-> <<key, secret, protocol, debug>>,
                       initialized |-> _initialized,
                       threw |-> Err("string", _ERROR_MESSAGES.keyAndSecretRequired),
                       calls |-> <<>>, reqs |-> 0 ]
          /\ UNCHANGED settings
     ELSE /\ _apiKey' = key
          /\ _apiSecret' = secret
          /\ _useHttps' = ~(protocol = Str("http"))
          /\ _debugMode' = debug
          /\ _initialized' = TRUE
          /\ last' = [ op |-> "initialize", args |-> <<key, secret, protocol, debug>>,
                       initialized |-> _initialized, threw |-> NoThrow,
                       calls |-> <<>>, reqs |-> 0 ]
  /\ UNCHANGED <<_HEADERS, requests, nCalls>>

\* initialize storing its arguments before it checks the key and the secret
initialize_storeFirst(key, secret, protocol, debug) ==
  /\ nCalls < MaxCalls
  /\ _apiKey' = key
  /\ _apiSecret' = secret
  /\ _useHttps' = ~(protocol = Str("http"))
  /\ _debugMode' = debug
  /\ IF ~Truthy(key) \/ ~Truthy(secret)
     THEN /\ last' = [ op |-> "initialize", args |-> <<key, secret, protocol, debug>>,
                       initialized |-> _initialized,
                       threw |-> Err("string", _ERROR_MESSAGES.keyAndSecretRequired),
                       calls |-> <<>>, reqs |-> 0 ]
          /\ UNCHANGED _initialized
     ELSE /\ _initialized' = TRUE
          /\ last' = [ op |-> "initialize", args |-> <<key, secret, protocol, debug>>,
                       initialized |-> _initialized, threw |-> NoThrow,
                       calls |-> <<>>, reqs |-> 0 ]
  /\ UNCHANGED <<_HEADERS, requests, nCalls>>

\* initialize(key, secret, protocol, debug)
initialize(key, secret, protocol, debug) ==
  /\ nCalls < MaxCalls
  /\ IF ~Truthy(key) \/ ~Truthy(secret)
     THEN /\ last' = [ op |-> "initialize", args |-> <<key, secret, protocol, debug>>,
                       initialized |-> _initialized,
                       threw |-> Err("string", _ERROR_MESSAGES.keyAndSecretRequired),
                       calls |-> <<>>, reqs |-> 0 ]
          /\ UNCHANGED settings
     ELSE /\ _apiKey' = key
          /\ _apiSecret' = secret
          /\ _useHttps' = ~(protocol = Str("http"))
          /\ _debugMode' = debug
          /\ _initialized' = TRUE
          /\ last' = [ op |-> "initialize", args |-> <<key, secret, protocol, debug>>,
                       initialized |-> _initialized, threw |-> NoThrow,
                       calls |-> <<>>, reqs |-> 0 ]
  /\ UNCHANGED <<_HEADERS, requests, nCalls>>

\* What a public operation op called with args does, its body evaluating to
\* out
Called(op, args, out) ==
  /\ last' = [ op |-> op, args |-> args, initialized |-> _initialized,
               threw |-> out.threw, calls |-> out.calls, reqs |-> Len(out.reqs) ]
  /\ requests' = requests \o out.reqs
  /\ _HEADERS' = out.headers
  /\ nCalls' = nCalls + 1
  /\ UNCHANGED settings

\* A public operation op called with args, whose body evaluates to out
Call(op, args, out) ==
  /\ nCalls < MaxCalls
  /\ Called(op, args, out)

Call_initialize ==
  \E key \in KeyArgs, secret \in SecretArgs, protocol \in ProtocolArgs, debug \in DebugArgs :
    initialize(key, secret, protocol, debug)

Call_sendTextMessage ==
  \E sender \in SenderArgs, recipient \in RecipientArgs, message \in MessageArgs,
     callback \in CallbackArgs :
    Call("sendTextMessage", <<sender, recipient, message, callback>>,
         sendTextMessage(sender, recipient, message, callback))

Call_sendBinaryMessage ==
  \E sender \in SenderArgs, recipient \in RecipientArgs, body \in BodyArgs,
     udh \in UdhArgs, callback \in CallbackArgs :
    Call("sendBinaryMessage", <<sender, recipient, body, udh, callback>>,
         sendBinaryMessage(sender, recipient, body, udh, callback))

Call_sendWapPushMessage ==
  \E sender \in SenderArgs, recipient \in RecipientArgs, title \in TitleArgs,
     url \in UrlArgs, validity \in ValidityArgs, callback \in CallbackArgs :
    Call("sendWapPushMessage", <<sender, recipient, title, url, validity, callback>>,
         sendWapPushMessage(sender, recipient, title, url, validity, callback))

Call_sendTTSMessage ==
  \E sender \in SenderArgs, recipient \in RecipientArgs, message \in MessageArgs,
     callback \in CallbackArgs :
    Call("sendTTSMessage", <<sender, recipient, message, callback>>,
         sendTTSMessage(sender, recipient, message, callback))

Call_getBalance ==
  \E callback \in CallbackArgs :
    Call("getBalance", <<callback>>, getBalance(callback))

Call_getPricing ==
  \E countryCode \in CountryArgs, callback \in CallbackArgs :
    Call("getPricing", <<countryCode, callback>>, getPricing(countryCode, callback))

Call_updateSecret ==
  \E newSecret \in NewSecretArgs, callback \in CallbackArgs :
    Call("updateSecret", <<newSecret, callback>>, updateSecret(newSecret, callback))

Call_updateMoCallBackUrl ==
  \E newUrl \in UrlArgs, callback \in CallbackArgs :
    Call("updateMoCallBackUrl", <<newUrl, callback>>, updateMoCallBackUrl(newUrl, callback))

Call_updateDrCallBackUrl ==
  \E newUrl \in UrlArgs, callback \in CallbackArgs :
    Call("updateDrCallBackUrl", <<newUrl, callback>>, updateDrCallBackUrl(newUrl, callback))

Call_getTopUp ==
  \E transactionId \in TransactionArgs, callback \in CallbackArgs :
    Call("getTopUp", <<transactionId, callback>>, getTopUp(transactionId, callback))

Call_getNumbers ==
  \E callback \in CallbackArgs :
    Call("getNumbers", <<callback>>, getNumbers(callback))

Call_searchNumbers ==
  \E countryCode \in CountryArgs, pattern \in PatternArgs, index \in IndexArgs,
     size \in SizeArgs, callback \in CallbackArgs :
    Call("searchNumbers", <<countryCode, pattern, index, size, callback>>,
         searchNumbers(countryCode, pattern, index, size, callback))

Call_buyNumber ==
  \E countryCode \in CountryArgs, msisdn \in MsisdnArgs, callback \in CallbackArgs :
    Call("buyNumber", <<countryCode, msisdn, callback>>,
         buyNumber(countryCode, msisdn, callback))

Call_cancelNumber ==
  \E countryCode \in CountryArgs, msisdn \in MsisdnArgs, callback \in CallbackArgs :
    Call("cancelNumber", <<countryCode, msisdn, callback>>,
         cancelNumber(countryCode, msisdn, callback))

Call_updateNumberCallback ==
  \E countryCode \in CountryArgs, msisdn \in MsisdnArgs, newUrl \in UrlArgs,
     callback \in CallbackArgs :
    Call("updateNumberCallback", <<countryCode, msisdn, newUrl, Undefined, callback>>,
         updateNumberCallback(countryCode, msisdn, newUrl, Undefined, callback))

Call_searchMessage ==
  \E messageId \in MessageIdArgs, callback \in CallbackArgs :
    Call("searchMessage", <<messageId, callback>>, searchMessage(messageId, callback))

Call_searchMessageByIds ==
  \E messageIds \in MessageIdsArgs, callback \in CallbackArgs :
    Call("searchMessageByIds", <<messageIds, callback>>,
         searchMessageByIds(messageIds, callback))

Call_searchMessagesByRecipient ==
  \E date \in DateArgs, to \in RecipientArgs, callback \in CallbackArgs :
    Call("searchMessagesByRecipient", <<date, to, callback>>,
         searchMessagesByRecipient(date, to, callback))

Call_searchRejections ==
  \E date \in DateArgs, to \in ToArgs, callback \in CallbackArgs :
    Call("searchRejections", <<date, to, callback>>, searchRejections(date, to, callback))

\* The number of operations a client calls back to back, the requests of the
\* earlier ones still in flight.
MaxPipelined == 2

\* One more call by a client that does not wait for the earlier calls' outcome
Pipelined(op, args, out) ==
  /\ nCalls < MaxPipelined
  /\ Called(op, args, out)

\* getBalance: a GET without parameters
Pipelined_getBalance ==
  \E callback \in CallbackArgs :
    Pipelined("getBalance", <<callback>>, getBalance(callback))

\* getTopUp: a POST
Pipelined_getTopUp ==
  \E transactionId \in TransactionArgs, callback \in CallbackArgs :
    Pipelined("getTopUp", <<transactionId, callback>>, getTopUp(transactionId, callback))

\* initialize with a key and a secret, protocol and debug left out
Call_initializeDefaults ==
  initialize(Str("key1"), Str("secret1"), Undefined, Undefined)

-----------------------------------------------------------------------------
(* The transport's events on a request, and the handlers sendRequest       *)
(* registered for them.  The transport emits 'response' at most once and   *)
(* not after 'error'; 'data' between 'response' and 'end'; 'end' at most   *)
(* once; 'close' at most once, after 'response', before or after 'end';    *)
(* 'error' at most once, before 'end' and 'close'.                         *)

\* the request after a handler ran its callback with outcome out
AfterCallback(r, out) ==
  [r EXCEPT !.delivered = @ \o out.calls,
            !.uncaught = IF out.threw = NoThrow THEN @ ELSE Append(@, out.threw)]

\* request.on('response'): the upstream service answers with one of Bodies
OnResponse ==
  \E i \in 1..Len(requests), body \in Bodies :
    /\ ~requests[i].responded
    /\ ~requests[i].errored
    /\ requests' = [requests EXCEPT ![i].responded = TRUE, ![i].plan = body]
    /\ UNCHANGED <<settings, _HEADERS, last, nCalls>>

\* response.on('data') with one buffer for the whole module
OnData_sharedBuffer ==
  \E i \in 1..Len(requests) :
    /\ requests[i].responded
    /\ ~requests[i].ended /\ ~requests[i].closed /\ ~requests[i].errored
    /\ requests[i].plan # <<>>
    /\ requests' = [j \in 1..Len(requests) |->
                      [requests[j] EXCEPT
                         !.buffer = @ \o Head(requests[i].plan),
                         !.plan = IF j = i THEN Tail(@) ELSE @]]
    /\ UNCHANGED <<settings, _HEADERS, last, nCalls>>

\* response.on('data')
OnData ==
  \E i \in 1..Len(requests) :
    /\ requests[i].responded
    /\ ~requests[i].ended /\ ~requests[i].closed /\ ~requests[i].errored
    /\ requests[i].plan # <<>>
    /\ requests' = [requests EXCEPT ![i].buffer = @ \o Head(requests[i].plan),
                                    ![i].plan = Tail(@)]
    /\ UNCHANGED <<settings, _HEADERS, last, nCalls>>

\* the handler of 'end'
onEnd(r) ==
  IF Truthy(r.callback)
  THEN LET parsed == JSON_parse(r.buffer)
           err == IF parsed.ok THEN ErrNull ELSE parserError
           responseData == IF parsed.ok THEN parsed.value ELSE PUndefined
       IN AfterCallback(r, CallCallback(r.callback, err, responseData))
  ELSE r

\* response.on('end'): the stream ends, complete or cut short
OnEnd ==
  \E i \in 1..Len(requests) :
    /\ requests[i].responded
    /\ ~requests[i].ended /\ ~requests[i].closed
    /\ requests' = [requests EXCEPT ![i] = [onEnd(@) EXCEPT !.ended = TRUE]]
    /\ UNCHANGED <<settings, _HEADERS, last, nCalls>>

\* the handler of the response's 'close', given the event's argument
onClose(r, e) == AfterCallback(r, CallCallback(r.callback, e, PUndefined))

\* what 'close' is emitted with: nothing, or the error that closed the stream
CloseArgs == {ErrUndefined, Err("Error", "aborted")}

\* response.on('close')
OnClose ==
  \E i \in 1..Len(requests), e \in CloseArgs :
    /\ requests[i].responded
    /\ ~requests[i].closed
    /\ requests' = [requests EXCEPT ![i] = [onClose(@, e) EXCEPT !.closed = TRUE]]
    /\ UNCHANGED <<settings, _HEADERS, last, nCalls>>

\* the handler of the request's 'error'
onError(r, e) == AfterCallback(r, CallCallback(r.callback, e, PUndefined))

ErrorArgs == {Err("Error", "ECONNRESET")}

\* request.on('error')
OnError ==
  \E i \in 1..Len(requests), e \in ErrorArgs :
    /\ ~requests[i].errored
    /\ ~requests[i].ended /\ ~requests[i].closed
    /\ requests' = [requests EXCEPT ![i] = [onError(@, e) EXCEPT !.errored = TRUE]]
    /\ UNCHANGED <<settings, _HEADERS, last, nCalls>>

-----------------------------------------------------------------------------
(* Specifications *)

\* The caller calls an operation, or the transport emits an event.  The
\* caller makes its calls (any number of initialize among them) until it has
\* called MaxCalls operations.
Next ==
  \/ Call_initialize
  \/ Call_sendTextMessage
  \/ Call_sendBinaryMessage
  \/ Call_sendWapPushMessage
  \/ Call_sendTTSMessage
  \/ Call_getBalance
  \/ Call_getPricing
  \/ Call_updateSecret
  \/ Call_updateMoCallBackUrl
  \/ Call_updateDrCallBackUrl
  \/ Call_getTopUp
  \/ Call_getNumbers
  \/ Call_searchNumbers
  \/ Call_buyNumber
  \/ Call_cancelNumber
  \/ Call_updateNumberCallback
  \/ Call_searchMessage
  \/ Call_searchMessageByIds
  \/ Call_searchMessagesByRecipient
  \/ Call_searchRejections
  \/ OnResponse
  \/ OnData
  \/ OnEnd
  \/ OnClose
  \/ OnError

Spec == Init /\ [][Next]_vars

\* The send operations alone: what a call of one does before it returns,
\* whatever the transport does later.
NextSend ==
  \/ Call_initialize
  \/ Call_sendTextMessage
  \/ Call_sendBinaryMessage
  \/ Call_sendWapPushMessage
  \/ Call_sendTTSMessage

SpecSend == Init /\ [][NextSend]_vars

\* The send operations and the transport
NextSendTransport ==
  \/ NextSend
  \/ OnResponse
  \/ OnData
  \/ OnEnd
  \/ OnClose
  \/ OnError

SpecSendTransport == Init /\ [][NextSendTransport]_vars

\* Every operation, called once: what the call does before it returns
NextCalls ==
  \/ Call_initialize
  \/ Call_sendTextMessage
  \/ Call_sendBinaryMessage
  \/ Call_sendWapPushMessage
  \/ Call_sendTTSMessage
  \/ Call_getBalance
  \/ Call_getPricing
  \/ Call_updateSecret
  \/ Call_updateMoCallBackUrl
  \/ Call_updateDrCallBackUrl
  \/ Call_getTopUp
  \/ Call_getNumbers
  \/ Call_searchNumbers
  \/ Call_buyNumber
  \/ Call_cancelNumber
  \/ Call_updateNumberCallback
  \/ Call_searchMessage
  \/ Call_searchMessageByIds
  \/ Call_searchMessagesByRecipient
  \/ Call_searchRejections

SpecCalls == Init /\ [][NextCalls]_vars

\* The search operations alone
NextSearch ==
  \/ Call_initialize
  \/ Call_searchMessage
  \/ Call_searchMessageByIds
  \/ Call_searchMessagesByRecipient
  \/ Call_searchRejections

SpecSearch == Init /\ [][NextSearch]_vars

\* A client that calls a GET and a POST operation back to back
NextPipelined ==
  \/ Call_initialize
  \/ Pipelined_getBalance
  \/ Pipelined_getTopUp

SpecPipelined == Init /\ [][NextPipelined]_vars

\* Requests in flight together, their events interleaved by the transport
NextStreams ==
  \/ Call_initializeDefaults
  \/ Pipelined_getBalance
  \/ OnResponse
  \/ OnData
  \/ OnEnd
  \/ OnClose
  \/ OnError

SpecStreams == Init /\ [][NextStreams]_vars

-----------------------------------------------------------------------------
(* Properties *)

Requests == {requests[i] : i \in 1..Len(requests)}

\* the request was issued by a send operation (through sendMessage)
IsSend(r) == IsGuardFn(r.callback)

\* the continuation the caller gave for the request (Undefined: none)
Continuation(r) == IF IsSend(r) THEN GuardedCallback(r.callback) ELSE r.callback

HasContinuation(r) == IsFunction(Continuation(r))

\* the transport reported an outcome of the request
OutcomeReported(r) == r.ended \/ r.closed \/ r.errored

\* the stream completed and no other event of the request was emitted
OnlyEnded(r) == r.ended /\ ~r.closed /\ ~r.errored

\* C1: for every request issued with a continuation, the continuation is
\* invoked exactly once whatever events the transport emits: never twice,
\* and once as soon as the transport has reported an outcome (end, close or
\* error).
C1_ExactlyOnce ==
  \A r \in Requests :
    HasContinuation(r) =>
      /\ Len(r.delivered) <= 1
      /\ OutcomeReported(r) => Len(r.delivered) = 1

\* C2: once a transport error, or a close before the end of the stream, was
\* emitted for a request with a continuation, the continuation has been
\* invoked exactly once, with a (truthy) error and undefined, nothing was
\* thrown, and this stays so whatever events follow.
C2_TransportFailureOnce ==
  \A r \in Requests :
    (HasContinuation(r) /\ (r.errored \/ (r.closed /\ ~r.ended))) =>
      /\ Len(r.delivered) = 1
      /\ ErrTruthy(r.delivered[1].err)
      /\ r.delivered[1].data = PUndefined
      /\ r.uncaught = <<>>

\* C3: when the stream completes with a body that is not valid JSON, the
\* continuation is invoked once with the decode error and the raw
\* accumulated body, and nothing is thrown.
C3_DecodeFailureRawBody ==
  \A r \in Requests :
    (HasContinuation(r) /\ OnlyEnded(r) /\ ~JSON_parse(r.buffer).ok) =>
      /\ r.delivered = <<Invocation(Continuation(r), parserError, PString(r.buffer))>>
      /\ r.uncaught = <<>>

\* C4: every public operation other than initialize, called while
\* _initialized is false, raises the not-initialized error, invokes no
\* continuation and issues no request.
C4_NotInitializedFailsFast ==
  (last.op \notin {"none", "initialize"} /\ ~last.initialized) =>
    /\ last.threw = Err("string", _ERROR_MESSAGES.initializeRequired)
    /\ last.calls = <<>>
    /\ last.reqs = 0

\* C5: a call of initialize with an empty or absent key or secret raises the
\* configuration error, invokes nothing, hands no request to the transport
\* and does not make the client initialized.
C5_InitializeRejectsEmpty ==
  [][ ( /\ last' # last
        /\ last'.op = "initialize"
        /\ (~Truthy(last'.args[1]) \/ ~Truthy(last'.args[2])) )
      => ( /\ last'.threw = Err("string", _ERROR_MESSAGES.keyAndSecretRequired)
           /\ last'.calls = <<>>
           /\ requests' = requests
           /\ _initialized' = _initialized ) ]_vars

\* C5's case: initialize was called with a key and an empty secret, and threw
C5_Witness ==
  /\ last.op = "initialize"
  /\ Truthy(last.args[1]) /\ last.args[2] = Str("")
  /\ last.threw.kind = "string"

\* the payload decoded from the body a request accumulated
Decoded(r) == JSON_parse(r.buffer).value

\* every invocation of the request's continuation reports an error
NeverSuccess(r) == \A k \in 1..Len(r.delivered) : ErrTruthy(r.delivered[k].err)

\* the continuation of the request was invoked with an Error of this message
DeliveredError(r, m) ==
  \E k \in 1..Len(r.delivered) :
    r.delivered[k].fn = Continuation(r) /\ r.delivered[k].err = NewError(m)

\* a send request with a continuation whose stream completed with valid JSON
SendDecoded(r) ==
  IsSend(r) /\ HasContinuation(r) /\ r.ended /\ JSON_parse(r.buffer).ok

\* C6 (as amended): for a send operation called with a continuation, a
\* decoded payload whose top-level status is truthy (not 0, not "") and whose
\* error-text is a non-empty string is delivered as an error whose message
\* is that error-text, and the continuation is never told of a success.
C6_StatusErrorTextIsApplicationError ==
  \A r \in Requests :
    (SendDecoded(r) /\ Truthy(Decoded(r).status) /\ Truthy(Decoded(r).errorText)) =>
      /\ DeliveredError(r, Decoded(r).errorText.s)
      /\ NeverSuccess(r)

\* C6's case: a send request decoded {"status":"1","error-text":"bad request"}
\* and its continuation received the error "bad request"
C6_Witness ==
  \E r \in Requests :
    /\ SendDecoded(r)
    /\ Decoded(r).status = Str("1") /\ Decoded(r).errorText = Str("bad request")
    /\ Len(r.delivered) = 1
    /\ r.delivered[1].fn = Fn(1) /\ r.delivered[1].err = NewError("bad request")

\* C6 (as stated): every decoded payload that carries a top-level status
\* together with an error-text is delivered as an error whose message is
\* that error-text, never as a success.
C6_Original ==
  \A r \in Requests :
    ( /\ SendDecoded(r)
      /\ Decoded(r).status # Undefined
      /\ Decoded(r).errorText # Undefined ) =>
      /\ DeliveredError(r, ErrorMessage(Decoded(r).errorText))
      /\ NeverSuccess(r)

\* the payload has a messages list whose first entry has a nonzero status
FirstMessageFailed(p) ==
  p.hasMessages /\ p.messages # <<>> /\ GreaterThanZero(p.messages[1].status)

\* C7: for a send operation, every decoded payload with a messages list whose
\* first entry has a nonzero status is delivered as an error carrying that
\* entry's error-text, with or without a top-level status.
C7_FirstMessageStatusIsApplicationError ==
  \A r \in Requests :
    (SendDecoded(r) /\ FirstMessageFailed(Decoded(r))) =>
      /\ DeliveredError(r, ErrorMessage(Decoded(r).messages[1].errorText))
      /\ NeverSuccess(r)

\* C8: for a send operation, a decoded payload with neither a top-level
\* status/error-text pair nor a failed first message is delivered unchanged
\* with a null error.
C8_OtherPayloadsPassUnchanged ==
  \A r \in Requests :
    ( /\ SendDecoded(r) /\ OnlyEnded(r)
      /\ ~(Decoded(r).status # Undefined /\ Decoded(r).errorText # Undefined)
      /\ ~FirstMessageFailed(Decoded(r)) ) =>
      /\ r.delivered = <<Invocation(Continuation(r), ErrNull, Decoded(r))>>
      /\ r.uncaught = <<>>

\* m if the condition holds
When(cond, m) == IF cond THEN {m} ELSE {}

SendOps == {"sendTextMessage", "sendBinaryMessage", "sendWapPushMessage", "sendTTSMessage"}

\* the arguments of its own a send operation requires are present
OwnArgsPresent(op, args) ==
  IF op \in {"sendTextMessage", "sendTTSMessage"} THEN Truthy(args[3])
  ELSE Truthy(args[3]) /\ Truthy(args[4])

\* the continuation given to a send operation (sendWapPushMessage takes it in
\* validity's place too)
SendContinuation(op, args) ==
  IF op = "sendWapPushMessage" /\ IsFunction(args[5]) THEN args[5]
  ELSE args[Len(args)]

\* the errors for the missing sender, the missing recipient
AddressErrors(args) ==
  {NewError(m) : m \in When(~Truthy(args[1]), _ERROR_MESSAGES.invalidSender)
                       \cup When(~Truthy(args[2]), _ERROR_MESSAGES.invalidRecipient)}

\* the last call reported one of errs: to the continuation cont if there is
\* one, by raising it otherwise
ReportedOnce(cont, errs) ==
  IF IsFunction(cont)
  THEN /\ last.threw = NoThrow
       /\ Len(last.calls) = 1
       /\ last.calls[1].fn = cont
       /\ last.calls[1].err \in errs
  ELSE /\ last.calls = <<>>
       /\ last.threw \in errs

\* C9 (as amended): a send operation called without a sender or without a
\* recipient issues no request; when the operation's own required arguments
\* are present, the continuation receives the invalidSender or
\* invalidRecipient error at once, and without a continuation that error is
\* raised to the caller.
C9_MissingAddressNeverSent ==
  (last.op \in SendOps /\ AddressErrors(last.args) # {}) =>
    /\ last.reqs = 0
    /\ OwnArgsPresent(last.op, last.args) =>
         ReportedOnce(SendContinuation(last.op, last.args), AddressErrors(last.args))

\* C9's case: sendTextMessage was called with a text, a sender and a
\* continuation but no recipient, and the continuation was invoked
C9_Witness ==
  /\ last.op = "sendTextMessage"
  /\ Truthy(last.args[1]) /\ ~Truthy(last.args[2]) /\ Truthy(last.args[3])
  /\ Len(last.calls) = 1
  /\ last.calls[1].fn = Fn(1)
  /\ last.calls[1].err = NewError(_ERROR_MESSAGES.invalidRecipient)
  /\ last.reqs = 0

\* C9 (as stated): a send operation called without a sender or without a
\* recipient issues no request and reports invalidSender or invalidRecipient,
\* to the continuation if there is one, by raising it otherwise.
C9_Original ==
  (last.op \in SendOps /\ AddressErrors(last.args) # {}) =>
    /\ last.reqs = 0
    /\ ReportedOnce(SendContinuation(last.op, last.args), AddressErrors(last.args))

\* the country code is not a 2-character string
BadCountry(v) == ~Truthy(v) \/ JSLength(v) # 2

\* the validation errors the arguments of a call to op deserve
InvalidArgs(op, args) ==
  CASE op \in {"sendTextMessage", "sendTTSMessage"} ->
         When(~Truthy(args[3]), _ERROR_MESSAGES.invalidTextMessage)
         \cup When(~Truthy(args[1]), _ERROR_MESSAGES.invalidSender)
         \cup When(~Truthy(args[2]), _ERROR_MESSAGES.invalidRecipient)
    [] op = "sendBinaryMessage" ->
         When(~Truthy(args[3]), _ERROR_MESSAGES.invalidBody)
         \cup When(~Truthy(args[4]), _ERROR_MESSAGES.invalidUdh)
         \cup When(~Truthy(args[1]), _ERROR_MESSAGES.invalidSender)
         \cup When(~Truthy(args[2]), _ERROR_MESSAGES.invalidRecipient)
    [] op = "sendWapPushMessage" ->
         When(~Truthy(args[3]), _ERROR_MESSAGES.invalidTitle)
         \cup When(~Truthy(args[4]), _ERROR_MESSAGES.invalidUrl)
         \cup When(~Truthy(args[1]), _ERROR_MESSAGES.invalidSender)
         \cup When(~Truthy(args[2]), _ERROR_MESSAGES.invalidRecipient)
    [] op \in {"getPricing", "searchNumbers"} ->
         When(BadCountry(args[1]), _ERROR_MESSAGES.invalidCountryCode)
    [] op = "updateSecret" ->
         When(~Truthy(args[1]) \/ JSLength(args[1]) > MaxSecretLength,
              _ERROR_MESSAGES.invalidNewSecret)
    [] op \in {"updateMoCallBackUrl", "updateDrCallBackUrl"} ->
         When(~Truthy(args[1]), _ERROR_MESSAGES.invalidCallbackUrl)
    [] op = "getTopUp" ->
         When(~Truthy(args[1]), _ERROR_MESSAGES.invalidTransactionId)
    [] op \in {"buyNumber", "cancelNumber"} ->
         When(BadCountry(args[1]), _ERROR_MESSAGES.invalidCountryCode)
         \cup When(~Truthy(args[2]) \/ JSLength(args[2]) < MinMsisdnLength,
                   _ERROR_MESSAGES.invalidMsisdn)
    [] op = "searchMessage" ->
         When(~Truthy(args[1]), _ERROR_MESSAGES.invalidMessageId)
    [] op = "searchMessageByIds" ->
         When(~Truthy(args[1]) \/ JSLength(args[1]) = 0, _ERROR_MESSAGES.invalidMessageId)
         \cup When(Truthy(args[1]) /\ JSLength(args[1]) > MaxMessageIds,
                   _ERROR_MESSAGES.tooManyMessageId)
    [] op = "searchMessagesByRecipient" ->
         When(~Truthy(args[1]), _ERROR_MESSAGES.invalidDate)
         \cup When(~Truthy(args[2]), _ERROR_MESSAGES.invalidRecipient)
    [] op = "searchRejections" ->
         When(~Truthy(args[1]), _ERROR_MESSAGES.invalidDate)
    [] OTHER -> {}

\* the positions of the arguments that are functions
FnPositions(args) == {k \in 1..Len(args) : IsFunction(args[k])}

\* C10: for every public operation that validates its arguments, a
\* validation failure issues no request and is delivered exactly once to the
\* continuation (the one function among the arguments, in the last position)
\* as the corresponding validation error; it is raised to the caller only
\* when the call has no continuation.
C10_ValidationFailureDelivered ==
  (InvalidArgs(last.op, last.args) # {}) =>
    /\ last.reqs = 0
    /\ FnPositions(last.args) = {Len(last.args)} =>
         ReportedOnce(last.args[Len(last.args)],
                      {NewError(m) : m \in InvalidArgs(last.op, last.args)})
    /\ FnPositions(last.args) = {} =>
         ReportedOnce(Undefined, {NewError(m) : m \in InvalidArgs(last.op, last.args)})

OverloadOps == {"searchNumbers", "searchRejections", "sendWapPushMessage"}

\* the positions of the optional arguments, where the continuation may stand
OverloadPositions(op) ==
  CASE op = "searchNumbers" -> {2, 3, 4}
    [] op = "searchRejections" -> {2}
    [] op = "sendWapPushMessage" -> {5}
    [] OTHER -> {}

\* the call leaves optional arguments out and gives its one continuation in
\* the place of the first of them
EarlyPositions(op, args) ==
  {k \in OverloadPositions(op) :
     /\ FnPositions(args) = {k}
     /\ \A j \in (k + 1)..Len(args) : args[j] = Undefined}

\* C11: a call of searchNumbers, searchRejections or sendWapPushMessage that
\* leaves optional arguments out and gives the continuation in an earlier
\* position reports to that continuation on every path: a validation failure
\* is delivered to it (and not raised), and the request issued for valid
\* arguments carries it.
C11_EarlyContinuationServed ==
  \A k \in EarlyPositions(last.op, last.args) :
    IF InvalidArgs(last.op, last.args) # {}
    THEN /\ last.reqs = 0
         /\ ReportedOnce(last.args[k],
                         {NewError(m) : m \in InvalidArgs(last.op, last.args)})
    ELSE last.initialized =>
           /\ last.reqs = 1
           /\ Continuation(requests[Len(requests)]) = last.args[k]

\* C12: searchMessageByIds with more than 10 ids reports tooManyMessageId
\* and issues no request; with no list or an empty one it reports
\* invalidMessageId and issues no request; with 1 to 10 ids an initialized
\* client issues exactly one request and reports nothing before it returns.
C12_MessageIdsLimit ==
  (last.op = "searchMessageByIds") =>
    LET n == JSLength(last.args[1])
    IN IF Truthy(last.args[1]) /\ n > 10
       THEN /\ last.reqs = 0
            /\ ReportedOnce(last.args[2], {NewError(_ERROR_MESSAGES.tooManyMessageId)})
       ELSE IF ~Truthy(last.args[1]) \/ n = 0
       THEN /\ last.reqs = 0
            /\ ReportedOnce(last.args[2], {NewError(_ERROR_MESSAGES.invalidMessageId)})
       ELSE last.initialized =>
              /\ last.reqs = 1
              /\ last.threw = NoThrow
              /\ last.calls = <<>>

\* C12's case: searchMessageByIds was called with 11 ids and a continuation,
\* which received tooManyMessageId
C12_Witness ==
  /\ last.op = "searchMessageByIds"
  /\ last.args[1] = Arr(11)
  /\ Len(last.calls) = 1
  /\ last.calls[1].fn = Fn(1)
  /\ last.calls[1].err = NewError(_ERROR_MESSAGES.tooManyMessageId)
  /\ last.reqs = 0

\* this step is a call of initialize that returned
InitializeReturned ==
  last' # last /\ last'.op = "initialize" /\ last'.threw = NoThrow

\* the requests this step handed to the transport
NewRequests == {requests'[i] : i \in (Len(requests) + 1)..Len(requests')}

\* C13: the protocol choice is set by each successful initialize (plaintext
\* exactly when the protocol given is 'http') and by nothing else, and every
\* request issued goes to port 80 over the unencrypted transport when the
\* choice is plaintext, to port 443 over the secure transport otherwise.
C13_ProtocolSelectsTransport ==
  [][ /\ InitializeReturned => (_useHttps' = (last'.args[3] # Str("http")))
      /\ ~InitializeReturned => (_useHttps' = _useHttps)
      /\ \A r \in NewRequests :
           IF _useHttps THEN r.port = 443 /\ r.secure
           ELSE r.port = 80 /\ ~r.secure ]_vars

\* C13's case: after an initialize with 'http', an operation issued a request
\* to port 80 over the unencrypted transport
C13_Witness ==
  /\ last.op \notin {"none", "initialize"}
  /\ ~_useHttps
  /\ \E r \in Requests : r.port = 80 /\ ~r.secure

\* the path carries a query string
HasQuery(path) == \E i \in 1..Len(path) : SubSeq(path, i, i) = "?"

\* the method the transport uses: GET when options.method is undefined
HttpMethod(r) == IF r.method = Undefined THEN Str("GET") ELSE r.method

\* the request is shaped as its own method asks
ShapedByMethod(r) ==
  /\ r.headers.ContentType = Str("application/x-www-form-urlencoded")
  /\ r.headers.accept = Str("application/json")
  /\ HttpMethod(r) \in {Str("GET"), Str("POST")}
  /\ (HttpMethod(r) = Str("GET")) =>
       /\ HasQuery(r.path)
       /\ r.written = <<>>
       /\ r.headers.ContentLength = Undefined
  /\ (HttpMethod(r) = Str("POST")) =>
       /\ ~HasQuery(r.path)
       /\ Len(r.written) = 1
       /\ r.headers.ContentLength = Num(Len(r.written[1]))

\* C14: in any sequence of calls every request is shaped by its own method
\* only: a GET has its parameters in the query string, no body and no
\* Content-Length header; a POST has them as its body, no query string and
\* a Content-Length equal to the length of that body; both have the
\* Content-Type and Accept headers.
C14_ShapedByOwnMethod == \A r \in Requests : ShapedByMethod(r)

\* the position of the first c in s, 0 if there is none
RECURSIVE IndexFrom(_, _, _)
IndexFrom(s, c, i) ==
  IF i > Len(s) THEN 0
  ELSE IF SubSeq(s, i, i) = c THEN i
  ELSE IndexFrom(s, c, i + 1)

\* s cut at every c
RECURSIVE Split(_, _)
Split(s, c) ==
  LET i == IndexFrom(s, c, 1)
  IN IF i = 0 THEN <<s>>
     ELSE <<SubSeq(s, 1, i - 1)>> \o Split(SubSeq(s, i + 1, Len(s)), c)

\* the name of the field "name=value"
FieldName(f) ==
  LET i == IndexFrom(f, "=", 1)
  IN IF i = 0 THEN f ELSE SubSeq(f, 1, i - 1)

\* the url-encoded parameters of a request: its body, or its query string
Query(r) ==
  IF r.written # <<>> THEN r.written[1]
  ELSE SubSeq(r.path, IndexFrom(r.path, "?", 1) + 1, Len(r.path))

\* the fields the server decodes from the request
QueryFields(r) == Split(Query(r), "&")

\* C15: every request an operation issues has the configured key and secret
\* as its first two fields, api_key and api_secret, before the operation's
\* parameters, and no other field of the request is named api_key or
\* api_secret, whatever the caller's arguments are.
C15_CredentialsNotOverridable ==
  [][ \A r \in NewRequests :
        LET fs == QueryFields(r)
        IN /\ Len(fs) >= 2
           /\ fs[1] = "api_key=" \o _apiKey.s
           /\ fs[2] = "api_secret=" \o _apiSecret.s
           /\ \A i \in 3..Len(fs) : FieldName(fs[i]) \notin {"api_key", "api_secret"} ]_vars

\* C15's case: after initialize was called with another key, an operation
\* was given an argument that spells a credential field and issued a request
C15_Witness ==
  /\ _apiKey = Str("key2")
  /\ last.args # <<>>
  /\ last.args[1] = Str("id1&api_key=evil")
  /\ last.reqs = 1
  /\ \E r \in Requests : Len(QueryFields(r)) = 3

\* the guard of sendMessage re-classifies the decoded payload as an error
\* with this message (the set is empty when it does not)
Reclassified(p) ==
  IF p.kind # "object" THEN {}
  ELSE IF Truthy(p.status) /\ Truthy(p.errorText) THEN {ErrorMessage(p.errorText)}
  ELSE IF Truthy(p.status) /\ FirstMessageFailed(p)
    THEN {ErrorMessage(p.messages[1].errorText)}
  ELSE {}

\* C16: when the payload of a send operation is re-classified as an
\* application error, the continuation receives the error carrying the
\* upstream message text and, as its second argument, the decoded payload.
C16_ApplicationErrorCarriesPayload ==
  \A r \in Requests :
    (SendDecoded(r) /\ OnlyEnded(r) /\ Reclassified(Decoded(r)) # {}) =>
      \E m \in Reclassified(Decoded(r)) :
        r.delivered = <<Invocation(Continuation(r), NewError(m), Decoded(r))>>

\* this step is a call of an operation other than initialize
OperationCalled == nCalls' # nCalls

\* C17: no operation other than initialize modifies process-wide state: a
\* call, whether it issues a GET, a POST or nothing, leaves the settings and
\* the shared header set as they were, and so does every transport event.
C17_OnlyInitializeWrites ==
  [][ /\ OperationCalled => UNCHANGED <<settings, _HEADERS>>
      /\ (last' = last) => UNCHANGED <<settings, _HEADERS>> ]_vars

\* the chunks, put together in their order
RECURSIVE Join(_)
Join(chunks) == IF chunks = <<>> THEN "" ELSE Head(chunks) \o Join(Tail(chunks))

\* the request's continuation was given a decoding of the body (its result
\* or its failure)
DecodeDelivered(r) ==
  \E k \in 1..Len(r.delivered) :
    \/ r.delivered[k].err \in {ErrNull, parserError}
    \/ r.delivered[k].data # PUndefined

\* C18: with several calls in flight and their events interleaved, each
\* request accumulates the chunks of its own response, in arrival order, in
\* its own buffer; nothing is decoded before its stream ends; and its
\* continuation is given nothing but what was decoded from that buffer.
C18_PrivateLifecycle ==
  \A r \in Requests :
    /\ ~r.responded => r.buffer = ""
    /\ r.responded => (r.buffer \o Join(r.plan)) \in {Join(b) : b \in Bodies}
    /\ DecodeDelivered(r) => r.ended
    /\ \A k \in 1..Len(r.delivered) :
         /\ r.delivered[k].fn = Continuation(r)
         /\ r.delivered[k].data \in {PUndefined, Decoded(r)}

\* C18's case: two requests were in flight together, their streams ended with
\* different bodies, and each continuation received its own request's payload
C18_Witness ==
  /\ Len(requests) = 2
  /\ requests[1].ended /\ requests[2].ended
  /\ requests[1].buffer = "{\"status\":\"1\",\"error-text\":\"bad request\"}"
  /\ requests[2].buffer = "{\"value\":3}"
  /\ requests[1].delivered = <<Invocation(Fn(1), ErrNull, Decoded(requests[1]))>>
  /\ requests[2].delivered = <<Invocation(Fn(1), ErrNull, Decoded(requests[2]))>>

\* C19: for every request issued with a continuation, once the transport
\* has emitted end-of-stream, a response close or a request error, the
\* continuation has been invoked at least once (the handlers invoke it
\* before they return), and nothing was raised inside a handler instead.
C19_CompletionReachesContinuation ==
  \A r \in Requests :
    (HasContinuation(r) /\ OutcomeReported(r)) =>
      /\ Len(r.delivered) >= 1
      /\ r.uncaught = <<>>

\* the request failed: a transport error, a close before the end of the
\* stream, a body that is not JSON, or a payload the send guard re-classifies
Failed(r) ==
  \/ r.errored
  \/ r.closed /\ ~r.ended
  \/ r.ended /\ ~JSON_parse(r.buffer).ok
  \/ r.ended /\ IsSend(r) /\ Reclassified(Decoded(r)) # {}

\* C20: a call issues at most one request, no event of the transport makes
\* the client issue another one (no retry), and a failure of the request is
\* reported to the caller's continuation as an error.
C20_NoRetryFailureReported ==
  /\ last.reqs <= 1
  /\ Len(requests) <= nCalls
  /\ \A r \in Requests :
       (HasContinuation(r) /\ Failed(r)) =>
         \E k \in 1..Len(r.delivered) : ErrTruthy(r.delivered[k].err)

\* this step is a call of initialize with an empty or absent key or secret
InitializeRejected ==
  /\ last'.op = "initialize"
  /\ ~Truthy(last'.args[1]) \/ ~Truthy(last'.args[2])
  /\ last' # last \/ UNCHANGED vars

\* C21: a call of initialize with an empty or absent key or secret leaves
\* the key, the secret, the protocol choice, the debug flag and the
\* initialized flag as they were; and once the client is initialized it
\* stays initialized, whatever is called and whatever the transport does.
C21_FailedInitializeKeepsSettings ==
  [][ /\ InitializeRejected => UNCHANGED settings
      /\ _initialized => _initialized' ]_vars

\* C21's case: an initialized client, configured with key2 over plaintext,
\* called initialize with an empty secret, which threw; the settings stayed
C21_Witness ==
  /\ last.op = "initialize"
  /\ last.initialized
  /\ last.args[1] = Str("key1") /\ last.args[2] = Str("")
  /\ last.threw = Err("string", _ERROR_MESSAGES.keyAndSecretRequired)
  /\ _initialized
  /\ _apiKey = Str("key2") /\ _apiSecret = Str("secret1") /\ ~_useHttps

\* C22: for a send operation, whenever the stream completes with a body
\* that decodes (to an object, to null or to any other value), the guard
\* raises no TypeError inside the end handler while it inspects the payload;
\* and when a continuation was given, it is invoked and nothing at all is
\* raised inside the handler.
C22_GuardNeverRaises ==
  \A r \in Requests :
    (IsSend(r) /\ OnlyEnded(r) /\ JSON_parse(r.buffer).ok) =>
      /\ \A k \in 1..Len(r.uncaught) : r.uncaught[k].kind # "TypeError"
      /\ HasContinuation(r) => (Len(r.delivered) >= 1 /\ r.uncaught = <<>>)

\* C23: for a request issued without a continuation, no event of the
\* transport (end of stream, close of the response, error of the request)
\* raises an exception inside its handler: the handlers do nothing where
\* they would have invoked the continuation.
C23_AbsentContinuationIsNoOp ==
  \A r \in Requests :
    ~HasContinuation(r) => r.uncaught = <<>>

====
